---- MODULE Spec2Model ----
(***************************************************************************)
(* Model of src/audio-transmitter.ino: a UDP -> S/PDIF bridge.             *)
(*                                                                         *)
(* Two contexts share a circular byte buffer:                              *)
(*   - the AsyncUDP task runs onPacket once per datagram (one at a time),  *)
(*   - the Arduino main task runs setup() once and then loop() forever.    *)
(* portENTER_CRITICAL/portEXIT_CRITICAL sections exclude the other         *)
(* context, so each is one atomic action here; every statement outside a   *)
(* critical section that touches shared data is a step of its own.         *)
(*                                                                         *)
(* Sizes are counted in cells.  The source's sizes are scaled down so that *)
(* the buffer can be filled, wrapped and overrun exhaustively; the model   *)
(* keeps their order and divisibility:                                     *)
(*   AUDIO_CHUNK_SIZE < MIN_BUFFER_FOR_PLAYBACK = 4 chunks                 *)
(*     < DEFAULT_SIZE < HEAP_ALLOC < PSRAM_ALLOC, all multiples of a chunk.*)
(***************************************************************************)
EXTENDS Integers, Sequences, FiniteSets

\* ---------------------------------------------------------------- sizes
\* constexpr size_t AUDIO_CHUNK_SIZE = 1024;
AUDIO_CHUNK_SIZE == 2
\* constexpr size_t MIN_BUFFER_FOR_PLAYBACK = 4096;  (4 chunks)
MIN_BUFFER_FOR_PLAYBACK == 8
\* size_t RING_BUFFER_SIZE = 16384;  the initialiser, overwritten by setup
DEFAULT_SIZE == 10
\* ps_malloc(256 * 1024)
PSRAM_ALLOC == 16
\* malloc(32 * 1024)
HEAP_ALLOC == 12

\* ---------------------------------------------------------------- bounds
\* The environment's events in one run: a datagram that arrives spends 1
\* of this budget, a stats interval that elapses spends 2.
MaxEvents == 5
\* Loads that find a cell outside the allocation overwritten by its owner.
MaxForeignWrites == 1
\* Datagram lengths the environment sends (cells): shorter than a chunk,
\* odd, and as long as the playback threshold.
PacketLens == {1, 3, 8}

\* A cell value no datagram carries: uninitialised or foreign memory.
Junk == 0

VARIABLES
    pc,                  \* main task: position in setup()/loop()
    npc,                 \* AsyncUDP task: position in onPacket
    spdifPin,            \* level of SPDIF_GPIO_PIN (toggled by the halt loop)
    listening,           \* udp.onPacket(onPacket) has been registered
    allocated,           \* cells behind ringBuffer (0: nullptr)
    ringBuffer,          \* the memory at ringBuffer[0 .. PSRAM_ALLOC-1]
    RING_BUFFER_SIZE,
    write_pos,
    read_pos,
    bytes_in_buffer,
    packetsReceived,
    totalBytesProcessed,
    statsDue,            \* millis() - lastStatsTime > 3000
    ledPulses,           \* pulses given on STATUS_LED_PIN
    packet,              \* onPacket: the datagram being handled
    reg,                 \* onPacket: packetsReceived as loaded by ++
    audio_chunk,         \* loop: local chunk
    bytes_to_read,       \* loop: local
    buffered,            \* loop: local of the stats block
    \* history variables (not program state)
    arrived,             \* datagrams handed to onPacket
    ticks,               \* stats intervals that have elapsed
    foreignWrites,       \* loads that met overwritten foreign memory
    acceptedLog,         \* payload of the accepted datagrams, in order
    acceptedCount,       \* datagrams accepted
    chunksRead,          \* successful reads of the drain step
    played,              \* chunks given to spdif.write, in order
    increments,          \* stores done by packetsReceived++
    printed,             \* the stats line just printed (NoLine: none)
    reportedPackets,     \* sum of the packet counts of all stats lines
    reportedBytes        \* sum of the byte counts of all stats lines

\* Budget spent so far.
Spent == arrived + 2 * ticks

bufvars == <<ringBuffer, write_pos, read_pos, bytes_in_buffer>>

\* Fixed once setup is over.
cfgvars == <<spdifPin, listening, allocated, RING_BUFFER_SIZE>>

\* Written by the AsyncUDP task only.
netvars == <<npc, packet, reg, arrived, acceptedLog, acceptedCount,
             increments>>

\* Written by the main task only.
mainvars == <<pc, totalBytesProcessed, statsDue, ledPulses, audio_chunk,
              bytes_to_read, buffered, ticks, foreignWrites, chunksRead,
              played, printed,
                   reportedPackets, reportedBytes>>

vars == <<bufvars, cfgvars, netvars, mainvars, packetsReceived>>

NoPacket == [len |-> 0, base |-> 0]

NoLine == [printed |-> FALSE]

\* Payload cells are numbered by their place in the stream of accepted
\* cells: a datagram that arrives when n cells have been accepted carries
\* n + 1, n + 2, ...  (none is Junk).  A dropped datagram's numbers are sent
\* again by the next one, as a stream that is resent after a loss.
\* packet.data()[i]
Data(pkt, i) == pkt.base + i

Payload(pkt) == [i \in 1..pkt.len |-> Data(pkt, i - 1)]

\* ------------------------------------------------------------ ring buffer

getBufferedBytes == bytes_in_buffer

\* A ring that keeps one cell free to tell full from empty.
getFreeSpaceOneLess == RING_BUFFER_SIZE - getBufferedBytes - 1

getFreeSpace == RING_BUFFER_SIZE - getBufferedBytes

\* Indices touched by n single-cell accesses from position pos.
Touched(pos, n, size) == {(pos + k) % size : k \in 0..(n - 1)}

\* Accesses outside the memory behind ringBuffer.
OutOfBounds(pos, n, size) == {j \in Touched(pos, n, size) : j >= allocated}

\* onPacket's copy loop: for (i = 0; i < len; i++).
RECURSIVE CopyIn(_, _, _, _, _)
CopyIn(buf, wp, pkt, i, size) ==
    IF i >= pkt.len
    THEN [buf |-> buf, pos |-> wp]
    ELSE CopyIn([buf EXCEPT ![wp] = Data(pkt, i)], (wp + 1) % size,
                pkt, i + 1, size)

\* A copy loop that forgets read_pos = (read_pos + 1) % RING_BUFFER_SIZE.
CopyOutStuck(buf, rp, chunk, i, n, size) ==
    [chunk |-> [k \in 1..n |-> buf[rp]], pos |-> rp]

\* loop's copy loop: for (i = 0; i < bytes_to_read; i++).
RECURSIVE CopyOut(_, _, _, _, _, _)
CopyOut(buf, rp, chunk, i, n, size) ==
    IF i >= n
    THEN [chunk |-> chunk, pos |-> rp]
    ELSE CopyOut(buf, (rp + 1) % size, Append(chunk, buf[rp]),
                 i + 1, n, size)

\* bytes_in_buffer += len;
AfterWrite(count, len) == count + len

\* A read that decrements by one instead of by the bytes read.
AfterReadByOne(count, n) == count - 1

\* bytes_in_buffer -= bytes_to_read;
AfterRead(count, n) == count - n

\* A drain that takes everything buffered.
BytesToReadAll == bytes_in_buffer

\* bytes_to_read = AUDIO_CHUNK_SIZE;
BytesToRead == AUDIO_CHUNK_SIZE

\* Memory as a load sees it when the cells in `lost` were overwritten by
\* their owner (cells outside the allocation are not the program's).
Overwritten(buf, lost) ==
    [j \in DOMAIN buf |-> IF j \in lost THEN Junk ELSE buf[j]]

\* ------------------------------------------------------------------ Init
Init ==
    /\ pc = "setup_spdif"
    /\ npc = "idle"
    /\ spdifPin = FALSE
    /\ listening = FALSE
    /\ allocated = 0
    /\ ringBuffer = [j \in 0..(PSRAM_ALLOC - 1) |-> Junk]
    /\ RING_BUFFER_SIZE = DEFAULT_SIZE
    /\ write_pos = 0
    /\ read_pos = 0
    /\ bytes_in_buffer = 0
    /\ packetsReceived = 0
    /\ totalBytesProcessed = 0
    /\ statsDue = FALSE
    /\ ledPulses = 0
    /\ packet = NoPacket
    /\ reg = 0
    /\ audio_chunk = <<>>
    /\ bytes_to_read = 0
    /\ buffered = 0
    /\ arrived = 0
    /\ ticks = 0
    /\ foreignWrites = 0
    /\ acceptedLog = <<>>
    /\ acceptedCount = 0
    /\ chunksRead = 0
    /\ played = <<>>
    /\ increments = 0
    /\ printed = NoLine
    /\ reportedPackets = 0
    /\ reportedBytes = 0

\* A fault (store or load through an invalid pointer) stops both tasks.
Crash ==
    /\ pc' = "crashed"
    /\ npc' = "crashed"

\* ----------------------------------------------------------------- setup

\* if (!spdif.begin(cfg)) { while (1) ... }
SetupSpdif ==
    /\ pc = "setup_spdif"
    /\ \E ok \in BOOLEAN : pc' = IF ok THEN "setup_alloc" ELSE "halt"
    /\ UNCHANGED <<bufvars, cfgvars, netvars, packetsReceived,
                   totalBytesProcessed, statsDue, ledPulses, audio_chunk,
                   bytes_to_read, buffered, ticks, foreignWrites, chunksRead,
                   played, printed,
                   reportedPackets, reportedBytes>>

\* A failure branch that blinks once and goes on with setup.
HaltBlinkOnce ==
    /\ pc = "halt"
    /\ spdifPin' = ~spdifPin
    /\ pc' = "setup_alloc"
    /\ UNCHANGED <<bufvars, netvars, packetsReceived, listening, allocated,
                   RING_BUFFER_SIZE, totalBytesProcessed, statsDue, ledPulses,
                   audio_chunk, bytes_to_read, buffered, ticks, foreignWrites,
                   chunksRead, played, printed, reportedPackets,
                   reportedBytes>>

\* while (1) { digitalWrite(pin, !digitalRead(pin)); delay(100); }
HaltBlink ==
    /\ pc = "halt"
    /\ spdifPin' = ~spdifPin
    /\ UNCHANGED <<bufvars, netvars, mainvars, packetsReceived, listening,
                   allocated, RING_BUFFER_SIZE>>

\* Cells behind ringBuffer after ps_malloc and, if it failed, malloc.
AllocResult(psramOk, heapOk) ==
    IF psramOk THEN PSRAM_ALLOC ELSE IF heapOk THEN HEAP_ALLOC ELSE 0

\* RING_BUFFER_SIZE = ringBuffer ? 256 * 1024 : 32 * 1024;
SizeAfterAlloc(ptrCells) ==
    IF ptrCells # 0 THEN PSRAM_ALLOC ELSE HEAP_ALLOC

SetupAlloc ==
    /\ pc = "setup_alloc"
    /\ \E psramOk \in BOOLEAN, heapOk \in BOOLEAN :
          /\ allocated' = AllocResult(psramOk, heapOk)
          /\ RING_BUFFER_SIZE' = SizeAfterAlloc(AllocResult(psramOk, heapOk))
    /\ write_pos' = 0
    /\ read_pos' = 0
    /\ bytes_in_buffer' = 0
    /\ pc' = "setup_udp"
    /\ UNCHANGED <<ringBuffer, netvars, packetsReceived, spdifPin, listening,
                   totalBytesProcessed, statsDue, ledPulses, audio_chunk,
                   bytes_to_read, buffered, ticks, foreignWrites, chunksRead,
                   played, printed,
                   reportedPackets, reportedBytes>>

\* if (udp.listen(udpPort)) udp.onPacket(onPacket);
SetupUDPServer ==
    /\ pc = "setup_udp"
    /\ \E ok \in BOOLEAN : listening' = ok
    /\ pc' = "loop_gate"
    /\ UNCHANGED <<bufvars, netvars, packetsReceived, spdifPin, allocated,
                   RING_BUFFER_SIZE, totalBytesProcessed, statsDue, ledPulses,
                   audio_chunk, bytes_to_read, buffered, ticks, foreignWrites,
                   chunksRead, played, printed,
                   reportedPackets, reportedBytes>>

\* -------------------------------------------------------------- onPacket

\* A datagram arrives and the handler starts: packetsReceived++ loads.
OnPacketEnter ==
    /\ npc = "idle"
    /\ listening
    /\ Spent + 1 <= MaxEvents
    /\ \E len \in PacketLens :
          packet' = [len |-> len, base |-> Len(acceptedLog) + 1]
    /\ arrived' = arrived + 1
    /\ reg' = packetsReceived
    /\ npc' = "count"
    /\ UNCHANGED <<bufvars, cfgvars, mainvars, packetsReceived, acceptedLog,
                   acceptedCount, increments>>

\* packetsReceived++ stores.
OnPacketCount ==
    /\ npc = "count"
    /\ packetsReceived' = reg + 1
    /\ increments' = increments + 1
    /\ npc' = "check"
    /\ UNCHANGED <<bufvars, cfgvars, mainvars, packet, reg, arrived,
                   acceptedLog, acceptedCount>>

\* A check against the capacity instead of the free space.
OverflowsCapacity(len) == RING_BUFFER_SIZE < len

\* A check that also turns away the datagram that fits exactly.
OverflowsOrFills(len) == getFreeSpace <= len

\* A check that counts on the chunk the consumer will read next.
OverflowsAfterNextRead(len) == getFreeSpace + AUDIO_CHUNK_SIZE < len

\* if (getFreeSpace() < len)
Overflows(len) == getFreeSpace < len

\* A handler that admits the part of the datagram that fits.
OnPacketCheckPartial ==
    /\ npc = "check"
    /\ npc' = "copy"
    /\ packet' = IF Overflows(packet.len)
                 THEN [packet EXCEPT !.len = getFreeSpace]
                 ELSE packet
    /\ UNCHANGED <<bufvars, cfgvars, mainvars, packetsReceived, reg, arrived,
                   acceptedLog, acceptedCount, increments>>

\* A handler that counts a datagram only once it is accepted.
OnPacketCheckUncount ==
    /\ npc = "check"
    /\ IF Overflows(packet.len)
       THEN /\ npc' = "idle"
            /\ packet' = NoPacket
            /\ packetsReceived' = reg
       ELSE /\ npc' = "copy"
            /\ packet' = packet
            /\ packetsReceived' = packetsReceived
    /\ UNCHANGED <<bufvars, cfgvars, mainvars, reg, arrived, acceptedLog,
                   acceptedCount, increments>>

\* if (getFreeSpace() < len) { ...; return; }
OnPacketCheck ==
    /\ npc = "check"
    /\ IF Overflows(packet.len)
       THEN /\ npc' = "idle"
            /\ packet' = NoPacket
       ELSE /\ npc' = "copy"
            /\ packet' = packet
    /\ UNCHANGED <<bufvars, cfgvars, mainvars, packetsReceived, reg, arrived,
                   acceptedLog, acceptedCount, increments>>

\* The critical section of onPacket: the copy loop and bytes_in_buffer += len.
\* A store outside the allocation faults or lands in foreign memory; a store
\* through nullptr faults.
OnPacketCopy ==
    /\ npc = "copy"
    /\ LET oob == OutOfBounds(write_pos, packet.len, RING_BUFFER_SIZE)
           r == CopyIn(ringBuffer, write_pos, packet, 0, RING_BUFFER_SIZE)
       IN  \/ /\ oob # {}
              /\ Crash
              /\ UNCHANGED <<bufvars, packet, acceptedLog, acceptedCount,
                             totalBytesProcessed, statsDue, ledPulses,
                             audio_chunk, bytes_to_read, buffered, ticks,
                             foreignWrites, chunksRead, played, printed,
                   reportedPackets, reportedBytes>>
           \/ /\ oob = {} \/ allocated > 0
              /\ ringBuffer' = r.buf
              /\ write_pos' = r.pos
              /\ bytes_in_buffer' = AfterWrite(bytes_in_buffer, packet.len)
              /\ read_pos' = read_pos
              /\ acceptedLog' = acceptedLog \o Payload(packet)
              /\ acceptedCount' = acceptedCount + 1
              /\ packet' = NoPacket
              /\ npc' = "idle"
              /\ UNCHANGED mainvars
    /\ UNCHANGED <<cfgvars, packetsReceived, reg, arrived, increments>>

\* ------------------------------------------------------------------ loop

\* A gate that opens for any full chunk.
GateOpenForChunk == getBufferedBytes >= AUDIO_CHUNK_SIZE

\* A gate with hysteresis: once playback has started, any full chunk opens it.
GateOpenOnceStarted ==
    \/ getBufferedBytes >= MIN_BUFFER_FOR_PLAYBACK
    \/ (chunksRead > 0 /\ getBufferedBytes >= AUDIO_CHUNK_SIZE)

\* if (getBufferedBytes() >= MIN_BUFFER_FOR_PLAYBACK)
GateOpen == getBufferedBytes >= MIN_BUFFER_FOR_PLAYBACK

LoopGate ==
    /\ pc = "loop_gate"
    /\ pc' = IF GateOpen THEN "loop_read" ELSE "loop_sleep"
    /\ UNCHANGED <<bufvars, cfgvars, netvars, packetsReceived,
                   totalBytesProcessed, statsDue, ledPulses, audio_chunk,
                   bytes_to_read, buffered, ticks, foreignWrites, chunksRead,
                   played, printed,
                   reportedPackets, reportedBytes>>

\* if (bytes_in_buffer >= AUDIO_CHUNK_SIZE), inside the critical section.
ChunkAvailable == bytes_in_buffer >= AUDIO_CHUNK_SIZE

\* What a load of the cells `oob` outside the allocation can meet: the cells
\* as stored, or overwritten by the memory's owner.
ForeignOutcomes(oob) ==
    {{}} \cup {o \in {oob} : o # {} /\ foreignWrites < MaxForeignWrites}

\* The critical section of loop: the read of one chunk.  A load outside the
\* allocation faults or reads foreign memory.
LoopRead ==
    /\ pc = "loop_read"
    /\ IF ChunkAvailable
       THEN LET oob == OutOfBounds(read_pos, BytesToRead, RING_BUFFER_SIZE)
            IN  \/ /\ oob # {}
                   /\ Crash
                   /\ UNCHANGED <<bufvars, audio_chunk, bytes_to_read,
                                  chunksRead, foreignWrites, packet, reg,
                                  arrived, acceptedLog, acceptedCount,
                                  increments>>
                \/ /\ oob = {} \/ allocated > 0
                   /\ \E lost \in ForeignOutcomes(oob) :
                         LET r == CopyOut(Overwritten(ringBuffer, lost),
                                          read_pos, <<>>, 0,
                                          BytesToRead, RING_BUFFER_SIZE)
                         IN  /\ audio_chunk' = r.chunk
                             /\ read_pos' = r.pos
                             /\ foreignWrites' =
                                  IF lost = {} THEN foreignWrites
                                  ELSE foreignWrites + 1
                   /\ bytes_to_read' = BytesToRead
                   /\ bytes_in_buffer' = AfterRead(bytes_in_buffer, BytesToRead)
                   /\ chunksRead' = chunksRead + 1
                   /\ pc' = "loop_write"
                   /\ UNCHANGED <<ringBuffer, write_pos, netvars>>
       ELSE /\ pc' = "loop_write"
            /\ UNCHANGED <<bufvars, netvars, audio_chunk, bytes_to_read,
                           chunksRead, foreignWrites>>
    /\ UNCHANGED <<cfgvars, packetsReceived, totalBytesProcessed, statsDue,
                   ledPulses, buffered, ticks, played, printed,
                   reportedPackets, reportedBytes>>

\* A drain step that goes back for the next chunk while one is buffered.
LoopWriteWhile ==
    /\ pc = "loop_write"
    /\ IF bytes_to_read > 0
       THEN /\ played' = Append(played, SubSeq(audio_chunk, 1, bytes_to_read))
            /\ totalBytesProcessed' = totalBytesProcessed + bytes_to_read
       ELSE UNCHANGED <<played, totalBytesProcessed>>
    /\ audio_chunk' = <<>>
    /\ bytes_to_read' = 0
    /\ pc' = IF ChunkAvailable THEN "loop_read" ELSE "stats_check"
    /\ UNCHANGED <<bufvars, cfgvars, netvars, packetsReceived, statsDue,
                   ledPulses, buffered, ticks, foreignWrites, chunksRead,
                   printed, reportedPackets, reportedBytes>>

\* if (bytes_to_read > 0) { spdif.write(audio_chunk, bytes_to_read);
\*                          totalBytesProcessed += bytes_to_read; }
LoopWrite ==
    /\ pc = "loop_write"
    /\ IF bytes_to_read > 0
       THEN /\ played' = Append(played, SubSeq(audio_chunk, 1, bytes_to_read))
            /\ totalBytesProcessed' = totalBytesProcessed + bytes_to_read
       ELSE UNCHANGED <<played, totalBytesProcessed>>
    /\ audio_chunk' = <<>>
    /\ bytes_to_read' = 0
    /\ pc' = "stats_check"
    /\ UNCHANGED <<bufvars, cfgvars, netvars, packetsReceived, statsDue,
                   ledPulses, buffered, ticks, foreignWrites, chunksRead,
                   printed, reportedPackets, reportedBytes>>

\* else { delay(1); }
LoopSleep ==
    /\ pc = "loop_sleep"
    /\ pc' = "stats_check"
    /\ UNCHANGED <<bufvars, cfgvars, netvars, packetsReceived,
                   totalBytesProcessed, statsDue, ledPulses, audio_chunk,
                   bytes_to_read, buffered, ticks, foreignWrites, chunksRead,
                   played, printed,
                   reportedPackets, reportedBytes>>

\* Time passes: more than 3000 ms since lastStatsTime.  millis() is read
\* only by the stats block's condition, so time advances there.
Tick ==
    /\ pc = "stats_check"
    /\ ~statsDue
    /\ Spent + 2 <= MaxEvents
    /\ statsDue' = TRUE
    /\ ticks' = ticks + 1
    /\ UNCHANGED <<bufvars, cfgvars, netvars, packetsReceived, pc,
                   totalBytesProcessed, ledPulses, audio_chunk, bytes_to_read,
                   buffered, foreignWrites, chunksRead, played, printed,
                   reportedPackets, reportedBytes>>

\* if (millis() - lastStatsTime > 3000)
StatsCheck ==
    /\ pc = "stats_check"
    /\ pc' = IF statsDue THEN "stats_snapshot" ELSE "loop_gate"
    /\ UNCHANGED <<bufvars, cfgvars, netvars, packetsReceived,
                   totalBytesProcessed, statsDue, ledPulses, audio_chunk,
                   bytes_to_read, buffered, ticks, foreignWrites, chunksRead,
                   played, printed,
                   reportedPackets, reportedBytes>>

\* A snapshot that consumes what it measures.
StatsSnapshotDraining ==
    /\ pc = "stats_snapshot"
    /\ buffered' = getBufferedBytes
    /\ bytes_in_buffer' = 0
    /\ read_pos' = write_pos
    /\ pc' = "stats_print"
    /\ UNCHANGED <<ringBuffer, write_pos, cfgvars, netvars, packetsReceived,
                   totalBytesProcessed, statsDue, ledPulses, audio_chunk,
                   bytes_to_read, ticks, foreignWrites, chunksRead, played,
                   printed, reportedPackets, reportedBytes>>

\* size_t buffered = getBufferedBytes();
StatsSnapshot ==
    /\ pc = "stats_snapshot"
    /\ buffered' = getBufferedBytes
    /\ pc' = "stats_print"
    /\ UNCHANGED <<bufvars, cfgvars, netvars, packetsReceived,
                   totalBytesProcessed, statsDue, ledPulses, audio_chunk,
                   bytes_to_read, ticks, foreignWrites, chunksRead, played,
                   printed, reportedPackets, reportedBytes>>

\* totalBytesProcessed / 1024: the source's chunk is 1024 bytes, so a KB is
\* one chunk of the scaled sizes.
KB == AUDIO_CHUNK_SIZE

\* The values Serial.printf("[Stats] ...") is given.
StatsLine ==
    [printed |-> TRUE,
     buffered |-> buffered,
     packets |-> packetsReceived,
     bytes |-> totalBytesProcessed,
     dataKB |-> totalBytesProcessed \div KB]

StatsPrint ==
    /\ pc = "stats_print"
    /\ printed' = StatsLine
    /\ reportedPackets' = reportedPackets + packetsReceived
    /\ reportedBytes' = reportedBytes + totalBytesProcessed
    /\ pc' = "stats_reset"
    /\ UNCHANGED <<bufvars, cfgvars, netvars, packetsReceived,
                   totalBytesProcessed, statsDue, ledPulses, audio_chunk,
                   bytes_to_read, buffered, ticks, foreignWrites, chunksRead,
                   played>>

\* A pulse decided by the occupancy at the time of the pulse.
LedPulseNow == bytes_in_buffer > 0

\* A reset that forgets totalBytesProcessed = 0.
StatsResetKeepsBytes ==
    /\ pc = "stats_reset"
    /\ packetsReceived' = 0
    /\ statsDue' = FALSE
    /\ ledPulses' = IF buffered > 0 THEN ledPulses + 1 ELSE ledPulses
    /\ buffered' = 0
    /\ printed' = NoLine
    /\ pc' = "loop_gate"
    /\ UNCHANGED <<bufvars, cfgvars, netvars, audio_chunk, bytes_to_read,
                   ticks, foreignWrites, chunksRead, played, reportedPackets,
                   reportedBytes, totalBytesProcessed>>

\* packetsReceived = 0; totalBytesProcessed = 0; lastStatsTime = millis();
\* if (buffered > 0) { LED high; delay(10); LED low; }
LedPulse == buffered > 0

StatsReset ==
    /\ pc = "stats_reset"
    /\ packetsReceived' = 0
    /\ totalBytesProcessed' = 0
    /\ statsDue' = FALSE
    /\ ledPulses' = IF LedPulse THEN ledPulses + 1 ELSE ledPulses
    /\ buffered' = 0
    /\ printed' = NoLine
    /\ pc' = "loop_gate"
    /\ UNCHANGED <<bufvars, cfgvars, netvars, audio_chunk, bytes_to_read,
                   ticks, foreignWrites, chunksRead, played, reportedPackets, reportedBytes>>

\* ------------------------------------------------------------------ Spec
Next ==
    \/ SetupSpdif
    \/ HaltBlink
    \/ SetupAlloc
    \/ SetupUDPServer
    \/ OnPacketEnter
    \/ OnPacketCount
    \/ OnPacketCheck
    \/ OnPacketCopy
    \/ LoopGate
    \/ LoopRead
    \/ LoopWrite
    \/ LoopSleep
    \/ Tick
    \/ StatsCheck
    \/ StatsSnapshot
    \/ StatsPrint
    \/ StatsReset

Spec == Init /\ [][Next]_vars

\* The steps of loop().  The Arduino core calls loop() again whenever it
\* returns, in a task of its own, and nothing in loop() waits for the network
\* task: critical sections are short and onPacket never holds one across a
\* call.  So a step of loop that can be taken is eventually taken.
LoopNext ==
    \/ LoopGate
    \/ LoopRead
    \/ LoopWrite
    \/ LoopSleep
    \/ StatsCheck
    \/ StatsSnapshot
    \/ StatsPrint
    \/ StatsReset

FairSpec == Spec /\ WF_vars(LoopNext)

\* ------------------------------------------------------------ properties
TypeOK ==
    /\ pc \in {"setup_spdif", "halt", "setup_alloc", "setup_udp", "loop_gate",
               "loop_read", "loop_write", "loop_sleep", "stats_check",
               "stats_snapshot", "stats_print", "stats_reset", "crashed"}
    /\ npc \in {"idle", "count", "check", "copy", "crashed"}
    /\ allocated \in {0, HEAP_ALLOC, PSRAM_ALLOC}
    /\ RING_BUFFER_SIZE \in {DEFAULT_SIZE, HEAP_ALLOC, PSRAM_ALLOC}
    /\ write_pos \in Nat /\ read_pos \in Nat /\ bytes_in_buffer \in Int

\* A step of the main task / of the AsyncUDP task that is not a fault.
MainStep == pc' # pc /\ pc' # "crashed"
NetStep == npc' # npc /\ npc' # "crashed"

\* C1: in every reachable state, whatever the interleaving of onPacket and
\* the drain step, 0 <= bytes_in_buffer <= RING_BUFFER_SIZE.
C1_OccupancyBounded ==
    /\ 0 <= bytes_in_buffer
    /\ bytes_in_buffer <= RING_BUFFER_SIZE

\* The buffer has been filled to capacity by writes interleaved with reads.
C1_Witness ==
    /\ bytes_in_buffer = RING_BUFFER_SIZE
    /\ chunksRead > 0
    /\ acceptedCount > 2

\* C2 as claimed: once the threshold has been reached (a chunk has been read,
\* or occupancy is at the threshold now), every iteration of loop that finds
\* a full chunk buffered goes on to read it.
C2_DrainsBelowThreshold ==
    [][(/\ pc = "loop_gate"
        /\ MainStep
        /\ chunksRead > 0 \/ GateOpen
        /\ bytes_in_buffer >= AUDIO_CHUNK_SIZE) => pc' = "loop_read"]_vars

\* C2 amended: an iteration of loop reads exactly when its own occupancy check
\* finds at least MIN_BUFFER_FOR_PLAYBACK bytes; it then reads one chunk of
\* AUDIO_CHUNK_SIZE bytes and forwards it; an iteration that finds less reads
\* nothing, also when full chunks are buffered and playback had started.
C2_GateEveryIteration ==
    [][/\ (pc = "loop_gate" /\ MainStep) =>
             /\ bytes_in_buffer >= MIN_BUFFER_FOR_PLAYBACK
                   => pc' = "loop_read"
             /\ bytes_in_buffer < MIN_BUFFER_FOR_PLAYBACK
                   => pc' = "loop_sleep" /\ UNCHANGED <<bufvars, played>>
       /\ (pc = "loop_read" /\ MainStep) =>
             /\ pc' = "loop_write"
             /\ bytes_in_buffer' = bytes_in_buffer - AUDIO_CHUNK_SIZE
             /\ Len(audio_chunk') = AUDIO_CHUNK_SIZE
       /\ (pc = "loop_write" /\ MainStep) =>
             played' = Append(played, audio_chunk)
       /\ (pc = "loop_sleep" /\ MainStep) =>
             pc' = "stats_check" /\ UNCHANGED <<bufvars, played>>]_vars

\* Occupancy 4 chunks, no further datagram: one chunk was played, three
\* chunks stay buffered and the loop idles.
C2_Witness ==
    /\ pc = "loop_sleep"
    /\ arrived = 1
    /\ Len(played) = 1
    /\ bytes_in_buffer = MIN_BUFFER_FOR_PLAYBACK - AUDIO_CHUNK_SIZE

\* C3: a handler call whose datagram is longer than the free space leaves
\* write_pos, read_pos, bytes_in_buffer and the stored bytes unchanged and
\* admits nothing; a drain attempt that finds fewer than AUDIO_CHUNK_SIZE
\* bytes leaves them unchanged and forwards nothing.
C3_NoPartialEffects ==
    [][/\ (npc \in {"idle", "count"} /\ NetStep) => UNCHANGED bufvars
       /\ (/\ npc = "check"
           /\ NetStep
           /\ packet.len > RING_BUFFER_SIZE - bytes_in_buffer) =>
             /\ npc' = "idle"
             /\ UNCHANGED <<bufvars, acceptedLog, acceptedCount>>
       /\ (/\ pc = "loop_gate"
           /\ MainStep
           /\ bytes_in_buffer < AUDIO_CHUNK_SIZE) =>
             /\ pc' = "loop_sleep"
             /\ UNCHANGED <<bufvars, played, chunksRead>>
       /\ (/\ pc = "loop_read"
           /\ MainStep
           /\ bytes_in_buffer < AUDIO_CHUNK_SIZE) =>
             /\ bytes_to_read' = 0
             /\ UNCHANGED <<bufvars, played, chunksRead>>
       /\ (pc = "loop_sleep" /\ MainStep) =>
             UNCHANGED <<bufvars, played, chunksRead>>]_vars

\* A datagram has been dropped while bytes were buffered, and they still are.
C3_Witness ==
    /\ npc = "idle"
    /\ arrived = 3
    /\ acceptedCount = 2
    /\ chunksRead = 0
    /\ bytes_in_buffer = Len(acceptedLog)
    /\ bytes_in_buffer > MIN_BUFFER_FOR_PLAYBACK

RECURSIVE Flatten(_)
Flatten(chunks) ==
    IF chunks = <<>> THEN <<>>
    ELSE Head(chunks) \o Flatten(Tail(chunks))

IsPrefix(a, b) == Len(a) <= Len(b) /\ SubSeq(b, 1, Len(a)) = a

\* C4: the concatenation of the chunks handed to the sink is always a prefix
\* of the concatenation of the accepted payloads, in arrival order.
C4_FifoIntegrity == IsPrefix(Flatten(played), acceptedLog)

\* C5: after setup, the capacity is no larger than the memory allocated for
\* ringBuffer, and it is the smaller size when the fallback was taken.
C5_CapacityWithinAllocation ==
    pc \notin {"setup_spdif", "halt", "setup_alloc"} =>
       /\ RING_BUFFER_SIZE <= allocated
       /\ allocated = HEAP_ALLOC => RING_BUFFER_SIZE = HEAP_ALLOC

\* C6: bytes_in_buffer is the bytes of all accepted datagrams minus
\* AUDIO_CHUNK_SIZE times the chunks read.
C6_OccupancyAccounting ==
    bytes_in_buffer = Len(acceptedLog) - AUDIO_CHUNK_SIZE * chunksRead

\* Datagrams were accepted and dropped and chunks read.
C6_Witness ==
    /\ acceptedCount >= 2
    /\ arrived > acceptedCount
    /\ npc = "idle"
    /\ chunksRead >= 2
    /\ bytes_in_buffer > 0

\* C7: write_pos and read_pos stay inside [0, RING_BUFFER_SIZE) and
\* (write_pos - read_pos) mod RING_BUFFER_SIZE = bytes_in_buffer mod
\* RING_BUFFER_SIZE; so the cursors are equal exactly when the buffer is
\* empty or full; and a datagram as long as the free space is accepted and
\* fills the buffer.
C7_Cursors ==
    /\ write_pos \in 0..(RING_BUFFER_SIZE - 1)
    /\ read_pos \in 0..(RING_BUFFER_SIZE - 1)
    /\ (write_pos - read_pos) % RING_BUFFER_SIZE
          = bytes_in_buffer % RING_BUFFER_SIZE
    /\ write_pos = read_pos <=>
          bytes_in_buffer = 0 \/ bytes_in_buffer = RING_BUFFER_SIZE

C7_CursorInvariant ==
    /\ []C7_Cursors
    /\ [][/\ (/\ npc = "check"
              /\ NetStep
              /\ packet.len = RING_BUFFER_SIZE - bytes_in_buffer) =>
                npc' = "copy"
          /\ (/\ npc = "copy"
              /\ NetStep
              /\ packet.len = RING_BUFFER_SIZE - bytes_in_buffer) =>
                /\ bytes_in_buffer' = RING_BUFFER_SIZE
                /\ write_pos' = read_pos']_vars

\* The buffer is full after reads and writes, with both cursors past 0.
C7_Witness ==
    /\ bytes_in_buffer = RING_BUFFER_SIZE
    /\ write_pos = read_pos
    /\ read_pos > 0
    /\ npc = "idle"

\* C8: every write to the sink carries exactly AUDIO_CHUNK_SIZE bytes and
\* follows a read that took exactly AUDIO_CHUNK_SIZE bytes off
\* bytes_in_buffer; an iteration that finds fewer than AUDIO_CHUNK_SIZE bytes
\* writes nothing.
C8_Chunks ==
    /\ \A i \in 1..Len(played) : Len(played[i]) = AUDIO_CHUNK_SIZE
    /\ Len(played) \in {chunksRead - 1, chunksRead}
    /\ Len(played) = chunksRead - 1 =>
          /\ bytes_to_read = AUDIO_CHUNK_SIZE
          /\ Len(audio_chunk) = AUDIO_CHUNK_SIZE
    /\ pc = "loop_read" => bytes_in_buffer >= AUDIO_CHUNK_SIZE
    /\ AUDIO_CHUNK_SIZE * chunksRead + bytes_in_buffer = Len(acceptedLog)

C8_WholeChunksOnly ==
    /\ []C8_Chunks
    /\ [][/\ played' # played =>
                /\ pc = "loop_write"
                /\ bytes_to_read = AUDIO_CHUNK_SIZE
                /\ played' = Append(played, audio_chunk)
          /\ (pc = "loop_read" /\ MainStep) =>
                /\ bytes_to_read' = AUDIO_CHUNK_SIZE
                /\ bytes_in_buffer' = bytes_in_buffer - AUDIO_CHUNK_SIZE
          /\ (/\ pc = "loop_gate"
              /\ MainStep
              /\ bytes_in_buffer < AUDIO_CHUNK_SIZE) =>
                pc' = "loop_sleep" /\ played' = played]_vars

\* Chunks were written, and a later iteration idles on a starved buffer.
C8_Witness ==
    /\ Len(played) >= 2
    /\ pc = "loop_sleep"
    /\ bytes_in_buffer < MIN_BUFFER_FOR_PLAYBACK

C9_Counted ==
    ticks = 0 =>
       /\ npc \in {"idle", "check", "copy"} => packetsReceived = arrived
       /\ npc = "count" => packetsReceived = arrived - 1

C10_NoLostIncrement ==
    (npc \in {"idle", "check", "copy"} /\ pc # "stats_reset") =>
       reportedPackets + packetsReceived = increments

\* The steps of the stats block of loop (lines 198-215).
StatsStep == pc \in {"stats_snapshot", "stats_print", "stats_reset"} /\ MainStep

\* C11: the stats block of loop leaves write_pos, read_pos, bytes_in_buffer
\* and the stored bytes unchanged (and reads, forwards and admits nothing);
\* it changes only the interval counters, the stats timer and the LED.
C11_StatsObservational ==
    [][/\ (pc = "stats_check" /\ MainStep) =>
             UNCHANGED <<bufvars, cfgvars, netvars, packetsReceived,
                         totalBytesProcessed, statsDue, ledPulses, chunksRead,
                         played, audio_chunk, bytes_to_read>>
       /\ StatsStep =>
             UNCHANGED <<bufvars, cfgvars, netvars, chunksRead, played,
                         audio_chunk, bytes_to_read>>]_vars

\* A report has been made and has pulsed the LED while bytes that were
\* written and read around it stayed buffered.
C11_Witness ==
    /\ pc = "loop_gate"
    /\ ticks = 1
    /\ ~statsDue
    /\ ledPulses = 1
    /\ chunksRead > 0
    /\ bytes_in_buffer > 0

\* C12: a stats report pulses the LED exactly when the occupancy captured by
\* its snapshot (the one it prints) is non-zero, and nothing else pulses it;
\* a report made when no datagram has arrived prints occupancy 0, packets 0,
\* bytes 0 and gives no pulse.
C12_PulseIffBuffered ==
    [][/\ (pc = "stats_snapshot" /\ MainStep) =>
             buffered' = bytes_in_buffer
       /\ (pc = "stats_print" /\ MainStep) =>
             /\ printed'.buffered = buffered
             /\ buffered' = buffered
             /\ arrived = 0 =>
                   /\ printed'.buffered = 0
                   /\ printed'.packets = 0
                   /\ printed'.bytes = 0
                   /\ printed'.dataKB = 0
       /\ (pc = "stats_reset" /\ MainStep) =>
             /\ printed.buffered > 0 => ledPulses' = ledPulses + 1
             /\ printed.buffered = 0 => ledPulses' = ledPulses
             /\ arrived = 0 => ledPulses' = ledPulses
       /\ ~(pc = "stats_reset" /\ MainStep) => ledPulses' = ledPulses]_vars

\* Two reports: the first on an empty buffer gave no pulse, the second, after
\* a datagram, gave one.
C12_Witness ==
    /\ pc = "loop_gate"
    /\ ticks = 2
    /\ ~statsDue
    /\ ledPulses = 1
    /\ arrived = 1

\* C13: the observers change nothing: a step that only observes (the gate's
\* check, the handler's free-space check, the snapshot) leaves the buffer as
\* it is; once setup has fixed the capacity, any step that neither writes a
\* datagram nor reads a chunk leaves both observed values as they were; and
\* getFreeSpace() + getBufferedBytes() = RING_BUFFER_SIZE, neither negative.
C13_Sum ==
    /\ getFreeSpace + getBufferedBytes = RING_BUFFER_SIZE
    /\ getFreeSpace >= 0
    /\ getBufferedBytes >= 0

C13_ObservationIdempotent ==
    /\ []C13_Sum
    /\ [][/\ (\/ (pc \in {"loop_gate", "stats_snapshot"} /\ MainStep)
               \/ (npc = "check" /\ NetStep)) =>
                 /\ UNCHANGED <<bufvars, cfgvars>>
                 /\ getBufferedBytes' = getBufferedBytes
                 /\ getFreeSpace' = getFreeSpace
          /\ (/\ pc \notin {"setup_spdif", "setup_alloc"}
              /\ acceptedCount' = acceptedCount
              /\ chunksRead' = chunksRead) =>
                 /\ getBufferedBytes' = getBufferedBytes
                 /\ getFreeSpace' = getFreeSpace
          /\ (pc = "loop_gate" /\ MainStep) =>
                 (pc' = "loop_read" <=>
                     getBufferedBytes >= MIN_BUFFER_FOR_PLAYBACK)
          /\ (npc = "check" /\ NetStep) =>
                 (npc' = "idle" <=> getFreeSpace < packet.len)]_vars

\* The snapshot has observed a buffer that was written and read, and the
\* handler is about to observe it again.
C13_Witness ==
    /\ pc = "stats_print"
    /\ npc = "check"
    /\ buffered = bytes_in_buffer
    /\ buffered > 0
    /\ chunksRead > 0

\* C14: once spdif.begin has failed the main task stays in the halt loop for
\* ever; there the ring buffer is not allocated, the capacity and cursors are
\* as initialised, no handler is registered, no datagram is taken in, no
\* chunk is read or written to the sink and no report is made.
C14_Halted ==
    pc = "halt" =>
       /\ allocated = 0
       /\ RING_BUFFER_SIZE = DEFAULT_SIZE
       /\ ~listening
       /\ npc = "idle"
       /\ arrived = 0
       /\ acceptedLog = <<>>
       /\ bytes_in_buffer = 0 /\ write_pos = 0 /\ read_pos = 0
       /\ chunksRead = 0
       /\ played = <<>>
       /\ ticks = 0

C14_FailStop ==
    /\ []C14_Halted
    /\ [][pc = "halt" =>
             /\ pc' = "halt"
             /\ UNCHANGED <<bufvars, netvars, mainvars, packetsReceived,
                            listening, allocated, RING_BUFFER_SIZE>>]_vars

\* The halt loop has toggled the pin.
C14_Witness ==
    /\ pc = "halt"
    /\ spdifPin

\* C15: an iteration of loop whose check finds bytes_in_buffer below
\* MIN_BUFFER_FOR_PLAYBACK takes the sleep branch; from the check to the end
\* of the iteration the loop changes neither read_pos nor bytes_in_buffer,
\* holds no chunk and writes nothing to the sink.
C15_Idle ==
    pc = "loop_sleep" => bytes_to_read = 0 /\ audio_chunk = <<>>

C15_GateClosedIdles ==
    /\ []C15_Idle
    /\ [][/\ (/\ pc = "loop_gate"
               /\ MainStep
               /\ getBufferedBytes < MIN_BUFFER_FOR_PLAYBACK) =>
                 pc' = "loop_sleep"
          /\ (pc \in {"loop_gate", "loop_sleep"} /\ MainStep) =>
                 UNCHANGED <<bufvars, chunksRead, played,
                             totalBytesProcessed, audio_chunk, bytes_to_read>>
          /\ (pc = "loop_sleep" /\ MainStep) => pc' = "stats_check"
          /\ pc' = "loop_read" =>
                 \/ pc = "loop_read"
                 \/ (/\ pc = "loop_gate"
                     /\ getBufferedBytes >= MIN_BUFFER_FOR_PLAYBACK)]_vars

\* The loop sleeps on a buffer that holds data but has never reached the
\* threshold.
C15_Witness ==
    /\ pc = "loop_sleep"
    /\ chunksRead = 0
    /\ acceptedCount = 2
    /\ bytes_in_buffer > AUDIO_CHUNK_SIZE
    /\ bytes_in_buffer < MIN_BUFFER_FOR_PLAYBACK

\* Chunks a run can forward: no datagram is longer than the threshold.
ChunkCounts ==
    0..(MaxEvents * (MIN_BUFFER_FOR_PLAYBACK \div AUDIO_CHUNK_SIZE))

\* C16: with loop() scheduled fairly, whenever bytes_in_buffer is at least
\* MIN_BUFFER_FOR_PLAYBACK a further chunk is eventually handed to the sink,
\* however the calls of onPacket interleave.
C16_DrainProgress ==
    \A n \in ChunkCounts :
       (bytes_in_buffer >= MIN_BUFFER_FOR_PLAYBACK /\ Len(played) = n)
          ~> (Len(played) > n)

\* The same where the capacity is within the allocation.
DrainProgressWithinAllocation ==
    \A n \in ChunkCounts :
       (/\ bytes_in_buffer >= MIN_BUFFER_FOR_PLAYBACK
        /\ Len(played) = n
        /\ RING_BUFFER_SIZE <= allocated)
          ~> (Len(played) > n)

\* C17 as claimed: when the drain step of an iteration ends and no datagram
\* was accepted during it, fewer than AUDIO_CHUNK_SIZE bytes remain.  (With a
\* single datagram so far, the one that opened the gate, none was accepted
\* during the drain.)
C17_DrainsUntilStarved ==
    [][(pc = "loop_write" /\ MainStep /\ arrived = 1) =>
           bytes_in_buffer' < AUDIO_CHUNK_SIZE]_vars

\* C17 amended: an iteration whose gate is open reads and forwards exactly
\* one chunk and then leaves the drain step; at that point at least
\* MIN_BUFFER_FOR_PLAYBACK - AUDIO_CHUNK_SIZE bytes (a chunk or more) are
\* still buffered.  The next chunk waits for the next iteration's check.
C17_Remaining ==
    pc = "loop_write" =>
       /\ bytes_to_read = AUDIO_CHUNK_SIZE
       /\ bytes_in_buffer >= MIN_BUFFER_FOR_PLAYBACK - AUDIO_CHUNK_SIZE
       /\ bytes_in_buffer >= AUDIO_CHUNK_SIZE

C17_OneChunkPerIteration ==
    /\ []C17_Remaining
    /\ [][/\ (pc = "loop_read" /\ MainStep) =>
                 /\ chunksRead' = chunksRead + 1
                 /\ bytes_in_buffer' = bytes_in_buffer - AUDIO_CHUNK_SIZE
                 /\ pc' = "loop_write"
          /\ (pc = "loop_write" /\ MainStep) =>
                 /\ pc' = "stats_check"
                 /\ Len(played') = Len(played) + 1
                 /\ chunksRead' = chunksRead
                 /\ bytes_in_buffer' = bytes_in_buffer
          /\ chunksRead' # chunksRead => pc = "loop_read"
          /\ pc' = "loop_read" => pc \in {"loop_gate", "loop_read"}]_vars

\* The drain step of the first open iteration has ended: one chunk forwarded,
\* three chunks still buffered, no datagram since.
C17_Witness ==
    /\ pc = "stats_check"
    /\ arrived = 1
    /\ Len(played) = 1
    /\ chunksRead = 1
    /\ bytes_in_buffer = MIN_BUFFER_FOR_PLAYBACK - AUDIO_CHUNK_SIZE

\* Ring indices of the bytes written and not yet read.
Unread == Touched(read_pos, bytes_in_buffer, RING_BUFFER_SIZE)

\* C18: with one handler call at a time, a datagram that passed the
\* free-space check still fits when its copy starts, whatever the consumer
\* did in between (it can only have freed space); the copy writes no cell
\* that holds an unread byte and leaves the unread bytes as they were.
C18_StillFits ==
    npc = "copy" =>
       /\ packet.len <= getFreeSpace
       /\ Touched(write_pos, packet.len, RING_BUFFER_SIZE) \cap Unread = {}

C18_CheckThenWriteSafe ==
    /\ []C18_StillFits
    /\ [][/\ (npc = "check" /\ NetStep /\ npc' = "copy") =>
                 packet.len <= getFreeSpace
          /\ (npc = "copy" /\ pc' # pc) => getFreeSpace' >= getFreeSpace
          /\ (npc = "copy" /\ NetStep) =>
                 /\ \A j \in Unread : ringBuffer'[j] = ringBuffer[j]
                 /\ bytes_in_buffer' = bytes_in_buffer + packet.len
                 /\ bytes_in_buffer' <= RING_BUFFER_SIZE
                 /\ read_pos' = read_pos]_vars

\* The consumer has read a chunk between the check and the copy of a
\* datagram that is about to fill the rest of the buffer but for that chunk.
C18_Witness ==
    /\ npc = "copy"
    /\ pc = "loop_write"
    /\ bytes_to_read = AUDIO_CHUNK_SIZE
    /\ bytes_in_buffer > 0
    /\ packet.len + bytes_in_buffer + AUDIO_CHUNK_SIZE = RING_BUFFER_SIZE

\* C19: the byte count of a stats report is AUDIO_CHUNK_SIZE times the
\* chunks forwarded to the sink since the previous report (the line prints
\* it in KB, a whole number of chunks); the counter is zeroed in the same
\* pass of the stats block with no chunk forwarded in between, so the byte
\* counts of all reports plus the counter are the bytes of all chunks
\* forwarded (between a report's line and its reset, the reports alone).
C19_Bytes ==
    /\ ~printed.printed =>
          reportedBytes + totalBytesProcessed
             = AUDIO_CHUNK_SIZE * Len(played)
    /\ printed.printed =>
          /\ reportedBytes = AUDIO_CHUNK_SIZE * Len(played)
          /\ printed.bytes = totalBytesProcessed

C19_IntervalBytes ==
    /\ []C19_Bytes
    /\ [][/\ (pc = "stats_print" /\ MainStep) =>
                 /\ printed'.bytes
                       = AUDIO_CHUNK_SIZE * Len(played) - reportedBytes
                 /\ printed'.dataKB * KB = printed'.bytes
                 /\ played' = played
          /\ (pc = "stats_reset" /\ MainStep) =>
                 /\ totalBytesProcessed' = 0
                 /\ played' = played
                 /\ pc' = "loop_gate"
          /\ (totalBytesProcessed' # totalBytesProcessed
                 /\ pc # "stats_reset") =>
                 /\ Len(played') = Len(played) + 1
                 /\ totalBytesProcessed'
                       = totalBytesProcessed + AUDIO_CHUNK_SIZE]_vars

\* The second report prints the one chunk forwarded since the first.
C19_Witness ==
    /\ printed.printed
    /\ ticks = 2
    /\ printed.bytes = AUDIO_CHUNK_SIZE
    /\ printed.dataKB = 1
    /\ reportedBytes = AUDIO_CHUNK_SIZE
    /\ Len(played) = 1

====
